---- MODULE Spec2Model ----
(***************************************************************************)
(* Model of the register / login core of src/server.js.                   *)
(*                                                                         *)
(* The file holds two variants of the same server (lines 1-155 and        *)
(* 156-302); they differ only in the body of the successful login         *)
(* response (the second adds a constant token).  A request handler is     *)
(* split at its awaits.  The code that runs before the first storage call *)
(* touches nothing shared, so it is one action with that call; bcrypt's   *)
(* compare is a step of its own because Date.now() is read right after    *)
(* it; save() of a new document (validation, hook, insert) is one action. *)
(* Strings are sequences of one-character strings, so that the length     *)
(* validators are computed.  The storage engine is taken to answer every  *)
(* call (no connection failure or timeout).                               *)
(***************************************************************************)
EXTENDS Integers, Sequences, FiniteSets, TLC

\* ---------------------------------------------------------------- bounds
NumReqs == 3
BoundaryReqs == 2
MaxClock == 2

\* ----------------------------------------------------- schema constants
MinUsernameLen == 3
MaxUsernameLen == 30
MinPasswordLen == 6

\* ------------------------------------------------------------- strings
Str(c, n) == [i \in 1..n |-> c]

\* req.body.username / req.body.password values the requests carry
Usernames == {Str("a", 0), Str("a", 2), Str("a", 3), Str("b", 30), Str("b", 31)}
Passwords == {Str("p", 0), Str("p", 5), Str("p", 6), Str("q", 6)}

\* the bodies that pass every validator
ValidUsernames == {Str("a", 3), Str("b", 30)}
ValidPasswords == {Str("p", 6), Str("q", 6)}

\* bcrypt.genSalt(10): a fresh salt for every call; a handler calls it at
\* most once, so the salt of request r is the r-th salt
SaltNames == <<"s1", "s2", "s3", "s4", "s5", "s6", "s7", "s8">>
GenSalt(r) == SaltNames[r]

Reqs == 1..NumReqs
BReqs == 1..BoundaryReqs
AllReqs == Reqs \cup BReqs

NoTime == -1

VARIABLES store, reqs, now, variant

vars == <<store, reqs, now, variant>>

\* ---------------------------------------------------------- bcrypt
\* bcrypt.hash(password, salt): an opaque string that embeds the version
\* prefix and the salt, followed by the digest of the plaintext.
BcryptPrefix == "$2b$10$"

Hash(password, salt) == <<BcryptPrefix, salt>> \o password

\* bcrypt.compare(password, hash): recompute with the embedded salt.
Compare(password, hashed) ==
    /\ Len(hashed) >= 2
    /\ hashed[1] = BcryptPrefix
    /\ hashed = Hash(password, hashed[2])

\* ---------------------------------------------------------- documents
NoDoc == [_id |-> 0, username |-> <<>>, password |-> <<>>,
          createdAt |-> NoTime, lastLogin |-> NoTime, modified |-> {}]

\* new User({ username, password }): createdAt takes its default Date.now
NewUser(id, username, password, t) ==
    [_id |-> id, username |-> username, password |-> password,
     createdAt |-> t, lastLogin |-> NoTime,
     modified |-> {"username", "password", "createdAt"}]

\* what the collection keeps of a document
Stored(doc) == [_id |-> doc._id, username |-> doc.username,
                password |-> doc.password, createdAt |-> doc.createdAt,
                lastLogin |-> doc.lastLogin]

\* a document hydrated from the collection: nothing modified
Hydrate(d) == [_id |-> d._id, username |-> d.username,
               password |-> d.password, createdAt |-> d.createdAt,
               lastLogin |-> d.lastLogin, modified |-> {}]

\* !username, !password: the empty string is falsy
Falsy(s) == Len(s) = 0

\* schema validators: required, minlength, maxlength
ValidateUser(doc) ==
    /\ Len(doc.username) > 0
    /\ Len(doc.username) >= MinUsernameLen
    /\ Len(doc.username) <= MaxUsernameLen
    /\ Len(doc.password) > 0
    /\ Len(doc.password) >= MinPasswordLen

IsModifiedAlways(doc, path) == TRUE

\* this.isModified('password')
IsModified(doc, path) == path \in doc.modified

\* userSchema.pre('save')
PreSave(doc, salt) ==
    IF ~IsModified(doc, "password") THEN doc
    ELSE [doc EXCEPT !.password = Hash(doc.password, salt),
                     !.modified = @ \cup {"password"}]

\* ---------------------------------------------------------- collection
\* User.findOne({ username })
FindOne(coll, username) ==
    IF \E d \in coll : d.username = username
    THEN Hydrate(CHOOSE d \in coll : d.username = username)
    ELSE NoDoc

InsertOneNoIndex(coll, doc) == [ok |-> TRUE, coll |-> coll \cup {Stored(doc)}]

\* insert under the unique index on username (unique: true): E11000 when
\* a record with that username exists
InsertOne(coll, doc) ==
    IF \E d \in coll : d.username = doc.username
    THEN [ok |-> FALSE, coll |-> coll]
    ELSE [ok |-> TRUE, coll |-> coll \cup {Stored(doc)}]

SetModified(d, doc) ==
    [d EXCEPT !.password = IF "password" \in doc.modified THEN doc.password ELSE @,
              !.lastLogin = IF "lastLogin" \in doc.modified THEN doc.lastLogin ELSE @]

UpdateOneNoFilter(coll, doc) == {SetModified(d, doc) : d \in coll}

\* save() of an existing document: updateOne({_id}, {$set: modified paths})
UpdateOne(coll, doc) ==
    {IF d._id = doc._id THEN SetModified(d, doc) ELSE d : d \in coll}

SaveNewInsertFirst(coll, doc, salt) ==
    LET hashed == PreSave(doc, salt)
        ins == InsertOne(coll, hashed)
    IN  IF ~ValidateUser(doc)
        THEN [err |-> "ValidationError", coll |-> ins.coll, doc |-> doc, hashed |-> TRUE]
        ELSE IF ~ins.ok
             THEN [err |-> "E11000", coll |-> ins.coll, doc |-> hashed, hashed |-> TRUE]
             ELSE [err |-> "", coll |-> ins.coll, doc |-> hashed, hashed |-> TRUE]

\* newUser.save(): validation, then the pre('save') hook, then the insert
SaveNew(coll, doc, salt) ==
    IF ~ValidateUser(doc)
    THEN [err |-> "ValidationError", coll |-> coll, doc |-> doc, hashed |-> FALSE]
    ELSE LET hashed == PreSave(doc, salt)
             ins == InsertOne(coll, hashed)
         IN  IF ~ins.ok
             THEN [err |-> "E11000", coll |-> coll, doc |-> hashed,
                   hashed |-> IsModified(doc, "password")]
             ELSE [err |-> "", coll |-> ins.coll, doc |-> hashed,
                   hashed |-> IsModified(doc, "password")]

\* user.save() of a found document: pre('save') hook, then the update
SaveExisting(coll, doc, salt) ==
    LET hooked == PreSave(doc, salt)
    IN  [coll |-> UpdateOne(coll, hooked), doc |-> hooked,
         hashed |-> IsModified(doc, "password")]

\* ---------------------------------------------------------- responses
NoResponse == [status |-> 0, body |-> [success |-> FALSE]]

MissingFieldResponse ==
    [status |-> 400,
     body |-> [success |-> FALSE, message |-> "Username and password are required"]]

DuplicateResponse ==
    [status |-> 409,
     body |-> [success |-> FALSE, message |-> "Username already exists"]]

RegisterErrorResponse ==
    [status |-> 500,
     body |-> [success |-> FALSE, message |-> "Internal server error during registration"]]

RegisterSuccessResponseWholeDoc(newUser) ==
    [status |-> 201,
     body |-> [success |-> TRUE, message |-> "User registered successfully",
               user |-> Stored(newUser)]]

RegisterSuccessResponse(newUser) ==
    [status |-> 201,
     body |-> [success |-> TRUE, message |-> "User registered successfully",
               user |-> [username |-> newUser.username,
                         createdAt |-> newUser.createdAt]]]

LoginNoUserResponseDistinct ==
    [status |-> 401,
     body |-> [success |-> FALSE, message |-> "User not found"]]

LoginNoUserResponse ==
    [status |-> 401,
     body |-> [success |-> FALSE, message |-> "Invalid credentials"]]

LoginBadPasswordResponse ==
    [status |-> 401,
     body |-> [success |-> FALSE, message |-> "Invalid credentials"]]

MockToken == "mock-token-12345"

LoginSuccessResponse(v, user) ==
    IF v = 1
    THEN [status |-> 200,
          body |-> [success |-> TRUE, message |-> "Login successful",
                    user |-> [username |-> user.username,
                              lastLogin |-> user.lastLogin]]]
    ELSE [status |-> 200,
          body |-> [success |-> TRUE, message |-> "Login successful",
                    token |-> MockToken,
                    user |-> [username |-> user.username,
                              lastLogin |-> user.lastLogin]]]

\* ---------------------------------------------------------- requests
\* A request: its operation and body, the handler's position, the local
\* document, the response sent, and what the handler did on the way
\* (storage reads, hashes, storage writes, the branch that answered).
IdleReq == [op |-> "none", username |-> <<>>, password |-> <<>>,
            pc |-> "idle", doc |-> NoDoc, resp |-> NoResponse,
            read |-> FALSE, hashed |-> FALSE, wrote |-> FALSE,
            branch |-> ""]

Init ==
    /\ store = {}
    /\ reqs = [r \in AllReqs |-> IdleReq]
    /\ now = 1
    /\ variant \in {1, 2}

\* requests are numbered in the order they arrive
Arrives(r) ==
    /\ reqs[r].pc = "idle"
    /\ \A q \in AllReqs : q < r => reqs[q].pc # "idle"

\* Date.now(): a value not below the last one it returned
DateNow(last) == last..MaxClock

\* POST /api/register from the arrival of the request to the call of
\* save(): the presence check, findOne, 409 or new User(...)
RegisterStart(r, username, password) ==
    /\ Arrives(r)
    /\ LET q == [IdleReq EXCEPT !.op = "register", !.username = username,
                                !.password = password]
           existingUser == FindOne(store, username)
       IN  IF Falsy(username) \/ Falsy(password)
           THEN /\ reqs' = [reqs EXCEPT ![r] =
                      [q EXCEPT !.pc = "done", !.resp = MissingFieldResponse,
                                !.branch = "missing"]]
                /\ now' = now
           ELSE IF existingUser # NoDoc
           THEN /\ reqs' = [reqs EXCEPT ![r] =
                      [q EXCEPT !.pc = "done", !.resp = DuplicateResponse,
                                !.read = TRUE, !.branch = "exists"]]
                /\ now' = now
           ELSE \E t \in DateNow(now) :
                /\ reqs' = [reqs EXCEPT ![r] =
                      [q EXCEPT !.pc = "save", !.read = TRUE,
                                !.doc = NewUser(r, username, password, t)]]
                /\ now' = t
    /\ UNCHANGED <<store, variant>>

\* save() resolves or rejects; 201, or the catch block's 500
RegisterSave(r) ==
    /\ reqs[r].op = "register"
    /\ reqs[r].pc = "save"
    /\ LET res == SaveNew(store, reqs[r].doc, GenSalt(r))
       IN    /\ store' = res.coll
             /\ reqs' = [reqs EXCEPT ![r] =
                  [@ EXCEPT !.pc = "done", !.doc = NoDoc,
                            !.hashed = res.hashed,
                            !.wrote = (res.coll # store),
                            !.branch = IF res.err = "" THEN "created" ELSE res.err,
                            !.resp = IF res.err = ""
                                     THEN RegisterSuccessResponse(res.doc)
                                     ELSE RegisterErrorResponse]]
    /\ UNCHANGED <<now, variant>>

\* the catch block of login: sent only when findOne, compare or save rejects,
\* which a storage engine that answers every call never does
LoginErrorResponse ==
    [status |-> 500,
     body |-> [success |-> FALSE, message |-> "Internal server error during login"]]

\* POST /api/login from the arrival of the request to the await of
\* bcrypt.compare: the presence check, findOne, 401 when absent
LoginStart(r, username, password) ==
    /\ Arrives(r)
    /\ LET q == [IdleReq EXCEPT !.op = "login", !.username = username,
                                !.password = password]
           user == FindOne(store, username)
       IN  reqs' = [reqs EXCEPT ![r] =
                IF Falsy(username) \/ Falsy(password)
                THEN [q EXCEPT !.pc = "done", !.resp = MissingFieldResponse,
                               !.branch = "missing"]
                ELSE IF user = NoDoc
                THEN [q EXCEPT !.pc = "done", !.resp = LoginNoUserResponse,
                               !.read = TRUE, !.branch = "nouser"]
                ELSE [q EXCEPT !.pc = "compare", !.read = TRUE, !.doc = user]]
    /\ UNCHANGED <<store, now, variant>>

\* compare resolves; 401, or user.lastLogin = Date.now() and the call of save()
LoginCompare(r) ==
    /\ reqs[r].op = "login"
    /\ reqs[r].pc = "compare"
    /\ LET isMatch == Compare(reqs[r].password, reqs[r].doc.password)
       IN  IF ~isMatch
           THEN /\ reqs' = [reqs EXCEPT ![r] =
                      [@ EXCEPT !.pc = "done", !.resp = LoginBadPasswordResponse,
                                !.doc = NoDoc, !.branch = "badpw"]]
                /\ now' = now
           ELSE \E t \in DateNow(now) :
                /\ reqs' = [reqs EXCEPT ![r] =
                      [@ EXCEPT !.pc = "save",
                                !.doc = [@ EXCEPT !.lastLogin = t,
                                                  !.modified = @ \cup {"lastLogin"}]]]
                /\ now' = t
    /\ UNCHANGED <<store, variant>>

\* save() resolves: the update reaches the collection; 200
LoginSave(r) ==
    /\ reqs[r].op = "login"
    /\ reqs[r].pc = "save"
    /\ LET res == SaveExisting(store, reqs[r].doc, GenSalt(r))
       IN    /\ store' = res.coll
             /\ reqs' = [reqs EXCEPT ![r] =
                  [@ EXCEPT !.pc = "done", !.doc = NoDoc,
                            !.hashed = res.hashed,
                            !.wrote = (res.coll # store),
                            !.branch = "loggedin",
                            !.resp = LoginSuccessResponse(variant, res.doc)]]
    /\ UNCHANGED <<now, variant>>

\* concurrent requests with bodies that pass validation
Next ==
    \/ \E r \in Reqs, u \in ValidUsernames, p \in ValidPasswords : RegisterStart(r, u, p)
    \/ \E r \in Reqs : RegisterSave(r)
    \/ \E r \in Reqs, u \in ValidUsernames, p \in ValidPasswords : LoginStart(r, u, p)
    \/ \E r \in Reqs : LoginCompare(r)
    \/ \E r \in Reqs : LoginSave(r)

Spec == Init /\ [][Next]_vars

\* requests with any body, the boundary lengths included
NextBoundary ==
    \/ \E r \in BReqs, u \in Usernames, p \in Passwords : RegisterStart(r, u, p)
    \/ \E r \in BReqs : RegisterSave(r)
    \/ \E r \in BReqs, u \in Usernames, p \in Passwords : LoginStart(r, u, p)
    \/ \E r \in BReqs : LoginCompare(r)
    \/ \E r \in BReqs : LoginSave(r)

SpecBoundary == Init /\ [][NextBoundary]_vars

\* ---------------------------------------------------------------- claims
Done(r) == reqs[r].pc = "done"

ErrorStatuses == {400, 401, 409, 500}

\* C1: in every reachable state at most one user record exists for each
\* username, also when several register requests for it are in flight.
C1_OneRecordPerUsername ==
    \A d1 \in store : \A d2 \in store :
        d1.username = d2.username => d1 = d2

\* two registrations of one username were both past findOne before either
\* insert, and both have been answered
C1_Witness ==
    \E r1 \in Reqs : \E r2 \in Reqs :
        /\ r1 # r2
        /\ reqs[r1].username = reqs[r2].username
        /\ reqs[r1].branch = "created"
        /\ reqs[r2].branch = "E11000"

\* C2 (as claimed): of the register requests that carry one valid
\* username, once all are answered exactly one got 201 and every other one
\* got the 409 'Username already exists' response.
C2_ExactlyOne201Others409 ==
    \A u \in ValidUsernames :
        LET R == {r \in AllReqs : reqs[r].op = "register" /\ reqs[r].username = u}
        IN  (Cardinality(R) >= 2 /\ \A r \in R : Done(r)) =>
                /\ Cardinality({r \in R : reqs[r].resp.status = 201}) = 1
                /\ \A r \in R : reqs[r].resp.status \in {201, 409}

\* C3 (as claimed): once a user has a lastLogin, no step makes the stored
\* lastLogin of that user smaller.
C3_LastLoginNeverDecreases ==
    [][\A d \in store : \A e \in store' :
          (e._id = d._id /\ d.lastLogin # NoTime) => e.lastLogin >= d.lastLogin]_vars

\* C4 (as claimed): a register request with both fields non-empty and a
\* username length outside [3,30] or a password length below 6 is answered
\* 400 and creates no record; one with username length 3 or 30 and password
\* length 6 for an unused username is answered 201.
C4_BoundaryLengths ==
    \A r \in AllReqs :
        (Done(r) /\ reqs[r].op = "register"
                 /\ ~Falsy(reqs[r].username) /\ ~Falsy(reqs[r].password)) =>
            /\ (\/ Len(reqs[r].username) < 3
                \/ Len(reqs[r].username) > 30
                \/ Len(reqs[r].password) < 6) =>
                   (reqs[r].resp.status = 400 /\ ~reqs[r].wrote)
            /\ (/\ Len(reqs[r].username) \in {3, 30}
                /\ Len(reqs[r].password) = 6
                /\ reqs[r].branch \notin {"exists", "E11000"}) =>
                   reqs[r].resp.status = 201

\* C5: a login answered because the username has no record and a login
\* answered because the password does not match get the same response:
\* status 401 and the same body, field by field.
C5_SameResponseForBothFailures ==
    \A r1 \in AllReqs : \A r2 \in AllReqs :
        (/\ Done(r1) /\ reqs[r1].op = "login" /\ reqs[r1].branch = "nouser"
         /\ Done(r2) /\ reqs[r2].op = "login" /\ reqs[r2].branch = "badpw") =>
            /\ reqs[r1].resp = reqs[r2].resp
            /\ reqs[r1].resp.status = 401

C5_Witness ==
    \E r1 \in Reqs : \E r2 \in Reqs :
        /\ Done(r1) /\ reqs[r1].op = "login" /\ reqs[r1].branch = "nouser"
        /\ Done(r2) /\ reqs[r2].op = "login" /\ reqs[r2].branch = "badpw"

\* the logins that carry the credentials of registration r
LoginsAs(r) ==
    {l \in AllReqs : /\ reqs[l].op = "login"
                     /\ reqs[l].username = reqs[r].username
                     /\ reqs[l].password = reqs[r].password}

\* C6: after a registration answered 201, in every later state the stored
\* password of that user differs from the plaintext and verifies against
\* it, and a login with these credentials that finds the record passes the
\* comparison and is answered 200 (the save of a login does not hash the
\* stored hash again).
C6_HashVerifiesForever ==
    \A r \in AllReqs :
        (Done(r) /\ reqs[r].op = "register" /\ reqs[r].resp.status = 201) =>
            /\ \E d \in store :
                  /\ d._id = r
                  /\ d.username = reqs[r].username
                  /\ d.password # reqs[r].password
                  /\ Compare(reqs[r].password, d.password)
            /\ \A l \in LoginsAs(r) :
                  /\ reqs[l].pc = "compare" =>
                        Compare(reqs[l].password, reqs[l].doc.password)
                  /\ (Done(l) /\ reqs[l].branch # "nouser") =>
                        reqs[l].resp.status = 200

\* a registered user has logged in twice with the registered credentials
C6_Witness ==
    \E r \in Reqs : \E l1 \in Reqs : \E l2 \in Reqs :
        /\ l1 # l2
        /\ reqs[r].op = "register" /\ reqs[r].resp.status = 201
        /\ l1 \in LoginsAs(r) /\ reqs[l1].resp.status = 200
        /\ l2 \in LoginsAs(r) /\ reqs[l2].resp.status = 200
        /\ reqs[l1].resp.body.user.lastLogin < reqs[l2].resp.body.user.lastLogin

\* C7: a record is never deleted; its username, createdAt and stored
\* password never change; lastLogin changes only in the step in which a
\* login of that same username is answered 200.
C7_OnlyLoginChangesLastLogin ==
    [][\A d \in store :
          /\ Cardinality({e \in store' : e._id = d._id}) = 1
          /\ \A e \in store' :
                e._id = d._id =>
                   /\ e.username = d.username
                   /\ e.createdAt = d.createdAt
                   /\ e.password = d.password
                   /\ e.lastLogin # d.lastLogin =>
                         \E r \in AllReqs :
                            /\ reqs[r].op = "login"
                            /\ reqs[r].pc = "save"
                            /\ reqs[r].username = d.username
                            /\ reqs'[r].pc = "done"
                            /\ reqs'[r].resp.status = 200]_vars

\* two users are stored and exactly one of them has logged in
C7_Witness ==
    \E d1 \in store : \E d2 \in store :
        /\ d1.username # d2.username
        /\ d1.lastLogin # NoTime
        /\ d2.lastLogin = NoTime

\* C8: no response carries the stored hash or the password field: an error
\* body has success and message only; the 201 body has a user with
\* username and createdAt only; the 200 body has a user with username and
\* lastLogin only and, in the second variant, the constant token.
C8_NoPasswordInResponses ==
    \A r \in AllReqs :
        Done(r) =>
            LET resp == reqs[r].resp
                body == resp.body
            IN  /\ resp.status \in ErrorStatuses =>
                      DOMAIN body = {"success", "message"}
                /\ resp.status = 201 =>
                      /\ DOMAIN body = {"success", "message", "user"}
                      /\ DOMAIN body.user = {"username", "createdAt"}
                /\ resp.status = 200 =>
                      /\ DOMAIN body = IF variant = 1
                                       THEN {"success", "message", "user"}
                                       ELSE {"success", "message", "user", "token"}
                      /\ variant = 2 => body.token = MockToken
                      /\ DOMAIN body.user = {"username", "lastLogin"}
                /\ resp.status \in {200, 201} =>
                      /\ body.user.username = reqs[r].username
                      /\ body.user.username # reqs[r].password
                      /\ \A d \in store : body.user.username # d.password

\* a registration and a login were answered with success by the variant
\* that adds the token
C8_Witness ==
    /\ variant = 2
    /\ \E r \in Reqs : reqs[r].resp.status = 201
    /\ \E r \in Reqs : reqs[r].resp.status = 200

\* the validation rules of the two operations
ViolatesValidation(r) ==
    \/ Falsy(reqs[r].username)
    \/ Falsy(reqs[r].password)
    \/ /\ reqs[r].op = "register"
       /\ \/ Len(reqs[r].username) < 3
          \/ Len(reqs[r].username) > 30
          \/ Len(reqs[r].password) < 6

\* C9 (as claimed): a request that violates a validation rule is answered
\* without a storage read, a storage write or a password hash having been
\* performed for it.
C9_ValidationBeforeStorageAndHash ==
    \A r \in AllReqs :
        (Done(r) /\ ViolatesValidation(r)) =>
            (~reqs[r].read /\ ~reqs[r].wrote /\ ~reqs[r].hashed)

\* C10: a request answered 400, 401, 409 or 500 has changed nothing in the
\* store, and the step that answers it leaves the store as it was.
C10_ErrorsLeaveStoreUnchanged ==
    /\ [](\A r \in AllReqs :
             (Done(r) /\ reqs[r].resp.status \in ErrorStatuses) => ~reqs[r].wrote)
    /\ [][\A r \in AllReqs :
             (~Done(r) /\ reqs'[r].pc = "done"
                       /\ reqs'[r].resp.status \in ErrorStatuses) =>
                 store' = store]_vars

\* a request was answered 500 while a record was stored
C10_Witness ==
    /\ store # {}
    /\ \E r \in BReqs : Done(r) /\ reqs[r].resp.status = 500
====
